---- MODULE Spec2Model ----
(***************************************************************************)
(* A model of winit's AppKit `sendEvent:` interception                     *)
(* (src/platform_impl/apple/appkit/app.rs) and of the key data model       *)
(* (src/keyboard.rs).                                                      *)
(*                                                                         *)
(* The interception part is a state machine: the Objective-C method table  *)
(* (`implementation`), each library instance's `ORIGINAL` slot and its     *)
(* AppState queue, and the Objective-C call that is about to run (`call`). *)
(* The key data model is a set of pure operators, exercised by KeySpec.    *)
(***************************************************************************)
EXTENDS Integers, Sequences, FiniteSets, TLC

VARIABLES
    implementation, \* [Methods -> Imp]: what Method::implementation() returns
    ORIGINAL,       \* [Instances -> Imp \cup {None}]: each instance's static slot
    installers,     \* history: the <<instance, method>> pairs override_send_event returned for
    queue,          \* [Instances -> Seq(DeviceEvent)]: handlers queued on the instance's AppState
    call,           \* the Objective-C call about to execute, or NoCall
    depth,          \* number of send_event frames on the stack for the event in flight
    dispatched,     \* number of events handed to the application so far
    panicked,       \* None, or the message of the panic that ended the process
    last,           \* history: what the most recent operation did
    kinput,         \* key model: the value the conversions started from
    kvalue,         \* key model: the current value
    kops,           \* key model: the conversions applied to kinput, in order
    kargs,          \* key model: the operands of a comparison or of to_text
    kresult,        \* key model: what the comparison or to_text returned
    kmods           \* key model: a ModifiersState and the flags set in it

vars == <<implementation, ORIGINAL, installers, queue, call, depth, dispatched,
          panicked, last, kinput, kvalue, kops, kargs, kresult, kmods>>

appVars == <<implementation, ORIGINAL, installers, queue, call, depth, dispatched,
             panicked, last>>

keyVars == <<kinput, kvalue, kops, kargs, kresult, kmods>>

convVars == <<kinput, kvalue, kops>>

----------------------------------------------------------------------------
(* Bounds *)

\* Events handed to the application in one behaviour.
MaxDispatch == 2

\* send_event frames the stack holds before it overflows.
MaxDepth == 3

\* Conversions applied to one key value in one behaviour.
MaxOps == 3

----------------------------------------------------------------------------
(* The Objective-C runtime, as far as override_send_event reads it *)

None == "None"

NoMethod == "NoMethod"

\* Two copies of the library linked into one process, each with its own
\* `send_event` function and its own `ORIGINAL` static.
Instances == {"A", "B"}

\* Dispatch targets: the application object, an instance of a subclass that
\* defines its own sendEvent:, and an object of a class without sendEvent:.
Apps == {"app", "test_app", "bad_app"}

class(app) ==
    CASE app = "app" -> "NSApplication"
      [] app = "test_app" -> "TestApplication"
      [] app = "bad_app" -> "Incompatible"

\* class.instance_method(sel!(sendEvent:))
instance_method(cls) ==
    CASE cls = "NSApplication" -> "-[NSApplication sendEvent:]"
      [] cls = "TestApplication" -> "-[TestApplication sendEvent:]"
      [] cls = "Incompatible" -> NoMethod

Methods == {instance_method(class(a)) : a \in Apps} \ {NoMethod}

\* The IMP a method has before anything was swizzled.
NativeImp(method) ==
    CASE method = "-[NSApplication sendEvent:]" -> "native NSApplication"
      [] method = "-[TestApplication sendEvent:]" -> "native TestApplication"

\* mem::transmute(send_event): the address of an instance's wrapper.
overridden(i) ==
    CASE i = "A" -> "send_event A"
      [] i = "B" -> "send_event B"

IsWrapper(imp) == \E i \in Instances : imp = overridden(i)

IsNative(imp) == \E m \in Methods : imp = NativeImp(m)

SendEventSel == "sendEvent:"

----------------------------------------------------------------------------
(* Native events *)

Command == "NSEventModifierFlagCommand"

MotionTypes == {"MouseMoved", "LeftMouseDragged", "OtherMouseDragged", "RightMouseDragged"}

DownTypes == {"LeftMouseDown", "RightMouseDown", "OtherMouseDown"}

UpTypes == {"LeftMouseUp", "RightMouseUp", "OtherMouseUp"}

KeyTypes == {"KeyDown", "KeyUp"}

OtherTypes == {"ScrollWheel"}

\* deltaX / deltaY values of a motion event.
DeltaXs == {0, 3}

DeltaYs == {-1, 0}

\* buttonNumber is an NSInteger (isize, 64 bits), held as its four 16-bit
\* limbs in two's complement, most significant first: the indices 0 and 2,
\* the value -1 and the value 2^32 + 1.
ButtonNumbers == {<<0, 0, 0, 0>>, <<0, 0, 0, 2>>, <<65535, 65535, 65535, 65535>>, <<0, 1, 0, 1>>}

NoButton == <<0, 0, 0, 0>>

Event(t, f, dx, dy, b) ==
    [type |-> t, modifierFlags |-> f, deltaX |-> dx, deltaY |-> dy, buttonNumber |-> b]

Events ==
    {Event(t, f, 0, 0, NoButton) : t \in KeyTypes, f \in {{}, {Command}}}
    \cup {Event(t, {}, 0, 0, NoButton) : t \in OtherTypes}
    \cup UNION {{Event(t, {}, dx, dy, NoButton) : dx \in DeltaXs, dy \in DeltaYs} : t \in MotionTypes}
    \cup {Event(t, {}, 0, 0, b) : t \in DownTypes \cup UpTypes, b \in ButtonNumbers}

----------------------------------------------------------------------------
(* Device events *)

\* A u32 is held as its two 16-bit limbs, most significant first.
PointerMotion(dx, dy) ==
    [kind |-> "PointerMotion", delta |-> <<dx, dy>>, button |-> <<0, 0>>, state |-> "-"]

Button(b, s) == [kind |-> "Button", delta |-> <<0, 0>>, button |-> b, state |-> s]

\* `x as u32` for an isize x: the low 32 bits.
AsU32(x) == <<x[3], x[4]>>

\* The isize whose value is that of the u32 u (zero-extended).
U32AsISize(u) == <<0, 0, u[1], u[2]>>

\* maybe_dispatch_device_event with `&&` between the two delta tests.
maybe_dispatch_device_event_and(event) ==
    IF event.type \in MotionTypes
    THEN IF event.deltaX # 0 /\ event.deltaY # 0
         THEN <<PointerMotion(event.deltaX, event.deltaY)>>
         ELSE <<>>
    ELSE IF event.type \in DownTypes
    THEN <<Button(AsU32(event.buttonNumber), "Pressed")>>
    ELSE IF event.type \in UpTypes
    THEN <<Button(AsU32(event.buttonNumber), "Released")>>
    ELSE <<>>

\* maybe_dispatch_device_event with the mouse-up arm copied from the
\* mouse-down arm unchanged.
maybe_dispatch_device_event_pressed(event) ==
    IF event.type \in MotionTypes
    THEN IF event.deltaX # 0 \/ event.deltaY # 0
         THEN <<PointerMotion(event.deltaX, event.deltaY)>>
         ELSE <<>>
    ELSE IF event.type \in DownTypes \cup UpTypes
    THEN <<Button(AsU32(event.buttonNumber), "Pressed")>>
    ELSE <<>>

\* maybe_dispatch_device_event with the motion arm as the catch-all arm.
maybe_dispatch_device_event_catch_all(event) ==
    IF event.type \in DownTypes
    THEN <<Button(AsU32(event.buttonNumber), "Pressed")>>
    ELSE IF event.type \in UpTypes
    THEN <<Button(AsU32(event.buttonNumber), "Released")>>
    ELSE IF event.deltaX # 0 \/ event.deltaY # 0
         THEN <<PointerMotion(event.deltaX, event.deltaY)>>
         ELSE <<PointerMotion(0, 0)>>

\* maybe_dispatch_device_event queueing one motion event per axis that
\* moved.
maybe_dispatch_device_event_per_axis(event) ==
    IF event.type \in MotionTypes
    THEN (IF event.deltaX # 0 THEN <<PointerMotion(event.deltaX, 0)>> ELSE <<>>)
         \o (IF event.deltaY # 0 THEN <<PointerMotion(0, event.deltaY)>> ELSE <<>>)
    ELSE IF event.type \in DownTypes
    THEN <<Button(AsU32(event.buttonNumber), "Pressed")>>
    ELSE IF event.type \in UpTypes
    THEN <<Button(AsU32(event.buttonNumber), "Released")>>
    ELSE <<>>

\* The device events maybe_dispatch_device_event hands to
\* AppState::maybe_queue_with_handler for one native event, in order.
maybe_dispatch_device_event(event) ==
    IF event.type \in MotionTypes
    THEN IF event.deltaX # 0 \/ event.deltaY # 0
         THEN <<PointerMotion(event.deltaX, event.deltaY)>>
         ELSE <<>>
    ELSE IF event.type \in DownTypes
    THEN <<Button(AsU32(event.buttonNumber), "Pressed")>>
    ELSE IF event.type \in UpTypes
    THEN <<Button(AsU32(event.buttonNumber), "Released")>>
    ELSE <<>>

\* AppState::maybe_queue_with_handler: the handler is appended to the
\* instance's pending handlers.
maybe_queue_with_handler(q, devs) == q \o devs

----------------------------------------------------------------------------
(* send_event: the wrapper *)

MsgNoHandler == "no existing sendEvent: handler set"

MsgNoMethod == "NSApplication must have sendEvent: method"

MsgStackOverflow == "stack overflow"

IsCommandKeyUp(event) == event.type = "KeyUp" /\ Command \in event.modifierFlags

Effect(op, fn, app, sel, event, dev) ==
    [op |-> op, fn |-> fn, app |-> app, sel |-> sel, event |-> event, dev |-> dev]

NoDev == PointerMotion(0, 0)

RouteEffect(event) == Effect("keyWindow.sendEvent", None, "-", "-", event, NoDev)

QueueEffect(dev) == Effect("queue", None, "-", "-", Event("-", {}, 0, 0, NoButton), dev)

CallEffect(fn, app, sel, event) == Effect("call", fn, app, sel, event, NoDev)

PanicEffect(msg) == Effect("panic", None, "-", msg, Event("-", {}, 0, 0, NoButton), NoDev)

\* send_event without the `return` that ends the command key-up path.
send_event_effects_fallthrough(slot, app, sel, event, keyWindow) ==
    LET devs == maybe_dispatch_device_event(event)
        queued == [k \in 1..Len(devs) |-> QueueEffect(devs[k])]
        routed == IF IsCommandKeyUp(event) /\ keyWindow THEN <<RouteEffect(event)>> ELSE <<>>
    IN  IF slot = None
        THEN routed \o queued \o <<PanicEffect(MsgNoHandler)>>
        ELSE routed \o queued \o <<CallEffect(slot, app, sel, event)>>

\* send_event forwarding to the original before the device event is queued.
send_event_effects_forward_first(slot, app, sel, event, keyWindow) ==
    IF IsCommandKeyUp(event)
    THEN IF keyWindow THEN <<RouteEffect(event)>> ELSE <<>>
    ELSE LET devs == maybe_dispatch_device_event(event)
             queued == [k \in 1..Len(devs) |-> QueueEffect(devs[k])]
         IN  IF slot = None
             THEN <<PanicEffect(MsgNoHandler)>>
             ELSE <<CallEffect(slot, app, sel, event)>> \o queued

\* send_event taking every key-release, with or without the command flag,
\* for the one to re-route.
send_event_effects_any_key_up(slot, app, sel, event, keyWindow) ==
    IF event.type = "KeyUp"
    THEN IF keyWindow THEN <<RouteEffect(event)>> ELSE <<>>
    ELSE LET devs == maybe_dispatch_device_event(event)
             queued == [k \in 1..Len(devs) |-> QueueEffect(devs[k])]
         IN  IF slot = None
             THEN queued \o <<PanicEffect(MsgNoHandler)>>
             ELSE queued \o <<CallEffect(slot, app, sel, event)>>

\* send_event with `if let Some(original)` in place of `expect`.
send_event_effects_no_expect(slot, app, sel, event, keyWindow) ==
    IF IsCommandKeyUp(event)
    THEN IF keyWindow THEN <<RouteEffect(event)>> ELSE <<>>
    ELSE LET devs == maybe_dispatch_device_event(event)
             queued == [k \in 1..Len(devs) |-> QueueEffect(devs[k])]
         IN  IF slot = None
             THEN queued
             ELSE queued \o <<CallEffect(slot, app, sel, event)>>

\* What one invocation of send_event does, in program order, given the
\* value of its ORIGINAL slot and whether the application has a key window.
send_event_effects(slot, app, sel, event, keyWindow) ==
    IF IsCommandKeyUp(event)
    THEN IF keyWindow THEN <<RouteEffect(event)>> ELSE <<>>
    ELSE LET devs == maybe_dispatch_device_event(event)
             queued == [k \in 1..Len(devs) |-> QueueEffect(devs[k])]
         IN  IF slot = None
             THEN queued \o <<PanicEffect(MsgNoHandler)>>
             ELSE queued \o <<CallEffect(slot, app, sel, event)>>

RECURSIVE SelectOp(_, _)
SelectOp(effects, op) ==
    IF effects = <<>> THEN <<>>
    ELSE IF Head(effects).op = op
         THEN <<Head(effects)>> \o SelectOp(Tail(effects), op)
         ELSE SelectOp(Tail(effects), op)

QueuedBy(effects) ==
    LET qs == SelectOp(effects, "queue") IN [k \in 1..Len(qs) |-> qs[k].dev]

\* app.keyWindow() is read only on the command key-up path.
KeyWindowReads(event) == IF IsCommandKeyUp(event) THEN BOOLEAN ELSE {FALSE}

----------------------------------------------------------------------------
(* override_send_event *)

\* override_send_event without the `overridden == method.implementation()`
\* early return.
override_result_no_check(impl, slots, i, app) ==
    LET method == instance_method(class(app)) IN
    IF method = NoMethod
    THEN [implementation |-> impl, ORIGINAL |-> slots, result |-> "panic"]
    ELSE [implementation |-> [impl EXCEPT ![method] = overridden(i)],
          ORIGINAL |-> [slots EXCEPT ![i] = impl[method]],
          result |-> "installed"]

\* override_send_event returning quietly when the class has no sendEvent:.
override_result_no_expect(impl, slots, i, app) ==
    LET method == instance_method(class(app)) IN
    IF method = NoMethod \/ overridden(i) = impl[method]
    THEN [implementation |-> impl, ORIGINAL |-> slots, result |-> "already"]
    ELSE [implementation |-> [impl EXCEPT ![method] = overridden(i)],
          ORIGINAL |-> [slots EXCEPT ![i] = impl[method]],
          result |-> "installed"]

\* override_send_event undoing the installation when it finds the wrapper
\* in place: the stored implementation is put back and the slot emptied.
override_result_toggle(impl, slots, i, app) ==
    LET method == instance_method(class(app)) IN
    IF method = NoMethod
    THEN [implementation |-> impl, ORIGINAL |-> slots, result |-> "panic"]
    ELSE IF overridden(i) = impl[method]
    THEN [implementation |-> [impl EXCEPT ![method] = slots[i]],
          ORIGINAL |-> [slots EXCEPT ![i] = None],
          result |-> "already"]
    ELSE [implementation |-> [impl EXCEPT ![method] = overridden(i)],
          ORIGINAL |-> [slots EXCEPT ![i] = impl[method]],
          result |-> "installed"]

\* override_send_event without the store at its end: the method is swapped
\* and the displaced implementation is not kept.
override_result_no_store(impl, slots, i, app) ==
    LET method == instance_method(class(app)) IN
    IF method = NoMethod
    THEN [implementation |-> impl, ORIGINAL |-> slots, result |-> "panic"]
    ELSE IF overridden(i) = impl[method]
    THEN [implementation |-> impl, ORIGINAL |-> slots, result |-> "already"]
    ELSE [implementation |-> [impl EXCEPT ![method] = overridden(i)],
          ORIGINAL |-> slots,
          result |-> "installed"]

\* The method table and the slots after instance i calls
\* override_send_event on `app`, and how the call ended.
override_result(impl, slots, i, app) ==
    LET method == instance_method(class(app)) IN
    IF method = NoMethod
    THEN [implementation |-> impl, ORIGINAL |-> slots, result |-> "panic"]
    ELSE IF overridden(i) = impl[method]
    THEN [implementation |-> impl, ORIGINAL |-> slots, result |-> "already"]
    ELSE [implementation |-> [impl EXCEPT ![method] = overridden(i)],
          ORIGINAL |-> [slots EXCEPT ![i] = impl[method]],
          result |-> "installed"]

Call(fn, app, sel, event) == [fn |-> fn, app |-> app, sel |-> sel, event |-> event]

\* No Objective-C call is pending.
NoCall == Call(None, "-", "-", Event("-", {}, 0, 0, NoButton))

Idle == call = NoCall /\ panicked = None

override_send_event(i, app) ==
    /\ Idle
    /\ LET r == override_result(implementation, ORIGINAL, i, app) IN
       /\ implementation' = r.implementation
       /\ ORIGINAL' = r.ORIGINAL
       /\ panicked' = IF r.result = "panic" THEN MsgNoMethod ELSE None
       /\ installers' = IF r.result = "panic" THEN installers
                        ELSE installers \cup {<<i, instance_method(class(app))>>}
       /\ last' = [op |-> "override_send_event", inst |-> i, app |-> app, result |-> r.result]
    /\ UNCHANGED <<queue, call, depth, dispatched, keyVars>>

----------------------------------------------------------------------------
(* Dispatch *)

\* The runtime sends sendEvent: to a target: objc_msgSend looks the IMP up.
sendEvent(app, event) ==
    /\ Idle
    /\ dispatched < MaxDispatch
    /\ instance_method(class(app)) # NoMethod
    /\ call' = Call(implementation[instance_method(class(app))], app, SendEventSel, event)
    /\ depth' = 0
    /\ dispatched' = dispatched + 1
    /\ last' = [op |-> "sendEvent:", app |-> app, event |-> event]
    /\ UNCHANGED <<implementation, ORIGINAL, installers, queue, panicked, keyVars>>

\* One invocation of instance i's send_event, up to its tail call.
send_event(i) ==
    /\ panicked = None
    /\ call # NoCall
    /\ call.fn = overridden(i)
    /\ IF depth >= MaxDepth
       THEN /\ panicked' = MsgStackOverflow
            /\ last' = [op |-> "overflow", inst |-> i]
            /\ UNCHANGED <<queue, call, depth>>
       ELSE \E keyWindow \in KeyWindowReads(call.event) :
            LET effects == send_event_effects(ORIGINAL[i], call.app, call.sel, call.event, keyWindow)
                calls == SelectOp(effects, "call")
                panics == SelectOp(effects, "panic")
            IN  /\ queue' = [queue EXCEPT ![i] = maybe_queue_with_handler(@, QueuedBy(effects))]
                /\ call' = IF calls = <<>> THEN NoCall
                           ELSE Call(calls[1].fn, calls[1].app, calls[1].sel, calls[1].event)
                /\ panicked' = IF panics = <<>> THEN None ELSE panics[1].sel
                /\ depth' = depth + 1
                /\ last' = [op |-> "send_event", inst |-> i, slot |-> ORIGINAL[i],
                            app |-> call.app, sel |-> call.sel, event |-> call.event,
                            keyWindow |-> keyWindow, effects |-> effects]
    /\ UNCHANGED <<implementation, ORIGINAL, installers, dispatched, keyVars>>

\* A native sendEvent: implementation runs: the runtime's own processing.
native_sendEvent ==
    /\ panicked = None
    /\ call # NoCall
    /\ IsNative(call.fn)
    /\ last' = [op |-> "native", fn |-> call.fn, app |-> call.app, sel |-> call.sel,
                event |-> call.event]
    /\ call' = NoCall
    /\ UNCHANGED <<implementation, ORIGINAL, installers, queue, depth, dispatched,
                   panicked, keyVars>>

\* send_event called directly (as the module's tests may), not through a
\* swizzled method.
direct_send_event(i, app, event) ==
    /\ Idle
    /\ dispatched < MaxDispatch
    /\ call' = Call(overridden(i), app, SendEventSel, event)
    /\ depth' = 0
    /\ dispatched' = dispatched + 1
    /\ last' = [op |-> "direct", inst |-> i, app |-> app, event |-> event]
    /\ UNCHANGED <<implementation, ORIGINAL, installers, queue, panicked, keyVars>>

----------------------------------------------------------------------------
(* The key data model (keyboard.rs) *)

\* A part of keyboard_types::Code, with its Unidentified variant.
KeyCodes == {"Backquote", "KeyA", "Digit1", "Enter", "Escape", "ShiftLeft", "F1", "Unidentified"}

\* NativeKeyCode: Unidentified, or a platform tag with a raw integer.
NativeCode(platform, raw) == [platform |-> platform, raw |-> raw]

NativeUnidentified == NativeCode("Unidentified", 0)

NativeKeyCodes ==
    {NativeUnidentified}
    \cup {NativeCode(p, x) : p \in {"Android", "MacOS", "Windows", "Xkb"}, x \in {0, 30}}

\* PhysicalKey::Code(code) and PhysicalKey::Unidentified(native)
PhysicalCode(code) == [variant |-> "Code", code |-> code, native |-> NativeUnidentified]

PhysicalUnidentified(native) == [variant |-> "Unidentified", code |-> "-", native |-> native]

PhysicalKeys ==
    {PhysicalCode(c) : c \in KeyCodes} \cup {PhysicalUnidentified(n) : n \in NativeKeyCodes}

\* impl From<KeyCode> for PhysicalKey
PhysicalKey_from_KeyCode(code) == PhysicalCode(code)

\* impl From<PhysicalKey> for KeyCode, with the Code arm degraded as well.
KeyCode_from_PhysicalKey_lossy(key) == "Unidentified"

\* impl From<PhysicalKey> for KeyCode, reading the code field of either
\* variant.
KeyCode_from_PhysicalKey_code(key) == key.code

\* impl From<PhysicalKey> for KeyCode
KeyCode_from_PhysicalKey(key) ==
    IF key.variant = "Code" THEN key.code ELSE "Unidentified"

\* impl From<NativeKeyCode> for PhysicalKey, with the unidentified native
\* code turned into the unidentified KeyCode.
PhysicalKey_from_NativeKeyCode_code(code) ==
    IF code = NativeUnidentified
    THEN PhysicalCode("Unidentified")
    ELSE PhysicalUnidentified(code)

\* impl From<NativeKeyCode> for PhysicalKey
PhysicalKey_from_NativeKeyCode(code) == PhysicalUnidentified(code)

\* A value of one of the key types, as the key variables hold it.
KeyValue(ty, code, physical, native) ==
    [ty |-> ty, code |-> code, physical |-> physical, native |-> native]

NoPhysical == PhysicalCode("-")

NoKey == KeyValue("none", "-", NoPhysical, NativeUnidentified)

OfKeyCode(code) == KeyValue("KeyCode", code, NoPhysical, NativeUnidentified)

OfPhysicalKey(key) == KeyValue("PhysicalKey", "-", key, NativeUnidentified)

OfNativeKeyCode(native) == KeyValue("NativeKeyCode", "-", NoPhysical, native)

KeyInputs ==
    {OfKeyCode(c) : c \in KeyCodes}
    \cup {OfPhysicalKey(k) : k \in PhysicalKeys}
    \cup {OfNativeKeyCode(n) : n \in NativeKeyCodes}

\* PhysicalKey::from(code) for a KeyCode
apply_PhysicalKey_from_KeyCode ==
    /\ Len(kops) < MaxOps
    /\ kvalue.ty = "KeyCode"
    /\ kvalue' = OfPhysicalKey(PhysicalKey_from_KeyCode(kvalue.code))
    /\ kops' = Append(kops, "PhysicalKey::from")
    /\ UNCHANGED <<kinput, kargs, kresult, kmods, appVars>>

\* PhysicalKey::from(code) for a NativeKeyCode
apply_PhysicalKey_from_NativeKeyCode ==
    /\ Len(kops) < MaxOps
    /\ kvalue.ty = "NativeKeyCode"
    /\ kvalue' = OfPhysicalKey(PhysicalKey_from_NativeKeyCode(kvalue.native))
    /\ kops' = Append(kops, "PhysicalKey::from")
    /\ UNCHANGED <<kinput, kargs, kresult, kmods, appVars>>

\* KeyCode::from(key) for a PhysicalKey
apply_KeyCode_from_PhysicalKey ==
    /\ Len(kops) < MaxOps
    /\ kvalue.ty = "PhysicalKey"
    /\ kvalue' = OfKeyCode(KeyCode_from_PhysicalKey(kvalue.physical))
    /\ kops' = Append(kops, "KeyCode::from")
    /\ UNCHANGED <<kinput, kargs, kresult, kmods, appVars>>

----------------------------------------------------------------------------
(* Key data model: NativeKey, Key and the cross-type comparisons *)

\* SmolStr payloads of NativeKey::Web.
WebCodes == {"KeyA", "30"}

\* NativeKey: Unidentified, a platform tag with a raw integer, or Web with a
\* string.
NativeKeyOf(platform, raw, web) == [platform |-> platform, raw |-> raw, web |-> web]

NativeKeyUnidentified == NativeKeyOf("Unidentified", 0, "")

NativeKeyWeb(web) == NativeKeyOf("Web", 0, web)

NativeKeys ==
    {NativeKeyUnidentified}
    \cup {NativeKeyOf(p, x, "") : p \in {"Android", "MacOS", "Windows", "Xkb"}, x \in {0, 30}}
    \cup {NativeKeyWeb(w) : w \in WebCodes}

\* impl From<NativeKeyCode> for NativeKey, with the two u16 arms sharing
\* one tag.
NativeKey_from_NativeKeyCode_u16(code) ==
    CASE code.platform = "Unidentified" -> NativeKeyUnidentified
      [] code.platform = "Android" -> NativeKeyOf("Android", code.raw, "")
      [] code.platform = "MacOS" -> NativeKeyOf("MacOS", code.raw, "")
      [] code.platform = "Windows" -> NativeKeyOf("MacOS", code.raw, "")
      [] code.platform = "Xkb" -> NativeKeyOf("Xkb", code.raw, "")

\* impl From<NativeKeyCode> for NativeKey
NativeKey_from_NativeKeyCode(code) ==
    CASE code.platform = "Unidentified" -> NativeKeyUnidentified
      [] code.platform = "Android" -> NativeKeyOf("Android", code.raw, "")
      [] code.platform = "MacOS" -> NativeKeyOf("MacOS", code.raw, "")
      [] code.platform = "Windows" -> NativeKeyOf("Windows", code.raw, "")
      [] code.platform = "Xkb" -> NativeKeyOf("Xkb", code.raw, "")

\* impl PartialEq<NativeKey> for NativeKeyCode
NativeKeyCode_eq_NativeKey(self, rhs) == NativeKey_from_NativeKeyCode(self) = rhs

\* impl PartialEq<NativeKeyCode> for NativeKey
NativeKey_eq_NativeKeyCode(self, rhs) == NativeKeyCode_eq_NativeKey(rhs, self)

\* keyboard_types::NamedKey
NamedKeys == {"Enter", "Backspace", "Tab", "Escape", "Delete", "Shift", "F20"}

\* A string is the sequence of its code points: "a", "A", "\r", "\x1b",
\* "Enter" and "".
Texts == {<<97>>, <<65>>, <<13>>, <<27>>, <<69, 110, 116, 101, 114>>, <<>>}

\* Option<&str> and Option<char>
SomeText(text) == [some |-> TRUE, text |-> text]

NoText == [some |-> FALSE, text |-> <<>>]

\* The payloads of Key::Dead: None, the acute accent and the backquote.
DeadChars == {NoText, SomeText(<<180>>), SomeText(<<96>>)}

\* Key<Str>: Named(NamedKey), Character(Str), Unidentified(NativeKey) and
\* Dead(Option<char>)
KeyOf(variant, named, text, native, dead) ==
    [variant |-> variant, named |-> named, text |-> text, native |-> native, dead |-> dead]

KeyNamed(named) == KeyOf("Named", named, <<>>, NativeKeyUnidentified, NoText)

KeyCharacter(text) == KeyOf("Character", "-", text, NativeKeyUnidentified, NoText)

KeyUnidentified(native) == KeyOf("Unidentified", "-", <<>>, native, NoText)

KeyDead(dead) == KeyOf("Dead", "-", <<>>, NativeKeyUnidentified, dead)

Keys ==
    {KeyNamed(a) : a \in NamedKeys}
    \cup {KeyCharacter(t) : t \in Texts}
    \cup {KeyUnidentified(n) : n \in NativeKeys}
    \cup {KeyDead(d) : d \in DeadChars}

\* impl From<NamedKey> for Key and impl From<NativeKey> for Key
Key_from_NamedKey(action) == KeyNamed(action)

Key_from_NativeKey(code) == KeyUnidentified(code)

----------------------------------------------------------------------------
(* Key data model: cross-type equality *)

\* impl PartialEq<KeyCode> for PhysicalKey, comparing after KeyCode::from.
PhysicalKey_eq_KeyCode_coerced(self, rhs) == KeyCode_from_PhysicalKey(self) = rhs

\* impl PartialEq<KeyCode> for PhysicalKey
PhysicalKey_eq_KeyCode(self, rhs) ==
    IF self.variant = "Code" THEN self.code = rhs ELSE FALSE

\* impl PartialEq<PhysicalKey> for KeyCode
KeyCode_eq_PhysicalKey(self, rhs) == PhysicalKey_eq_KeyCode(rhs, self)

\* impl PartialEq<NativeKeyCode> for PhysicalKey
PhysicalKey_eq_NativeKeyCode(self, rhs) ==
    IF self.variant = "Unidentified" THEN self.native = rhs ELSE FALSE

\* impl PartialEq<PhysicalKey> for NativeKeyCode
NativeKeyCode_eq_PhysicalKey(self, rhs) == PhysicalKey_eq_NativeKeyCode(rhs, self)

\* impl PartialEq<NamedKey> for Key<Str>
Key_eq_NamedKey(self, rhs) ==
    IF self.variant = "Named" THEN self.named = rhs ELSE FALSE

\* impl PartialEq<str> for Key<Str>
Key_eq_str(self, rhs) ==
    IF self.variant = "Character" THEN self.text = rhs ELSE FALSE

\* impl PartialEq<&str> for Key<Str>
Key_eq_ref_str(self, rhs) == Key_eq_str(self, rhs)

\* impl PartialEq<NativeKey> for Key<Str>
Key_eq_NativeKey(self, rhs) ==
    IF self.variant = "Unidentified" THEN self.native = rhs ELSE FALSE

\* impl PartialEq<Key<Str>> for NativeKey
NativeKey_eq_Key(self, rhs) == Key_eq_NativeKey(rhs, self)

----------------------------------------------------------------------------
(* Key data model: Key::to_text *)

\* "\r", "\x08", "\t" and "\x1b"
CR == <<13>>

BS == <<8>>

TAB == <<9>>

ESC == <<27>>

\* Key::to_text, with a dead key's character taken for its text.
Key_to_text_dead(self) ==
    CASE self.variant = "Named" ->
            CASE self.named = "Enter" -> SomeText(CR)
              [] self.named = "Backspace" -> SomeText(BS)
              [] self.named = "Tab" -> SomeText(TAB)
              [] self.named = "Escape" -> SomeText(ESC)
              [] OTHER -> NoText
      [] self.variant = "Character" -> SomeText(self.text)
      [] self.variant = "Dead" -> self.dead
      [] OTHER -> NoText

\* Key::to_text
Key_to_text(self) ==
    CASE self.variant = "Named" ->
            CASE self.named = "Enter" -> SomeText(CR)
              [] self.named = "Backspace" -> SomeText(BS)
              [] self.named = "Tab" -> SomeText(TAB)
              [] self.named = "Escape" -> SomeText(ESC)
              [] OTHER -> NoText
      [] self.variant = "Character" -> SomeText(self.text)
      [] OTHER -> NoText

----------------------------------------------------------------------------
(* Key data model: ModifiersState *)

\* The bits of a u32 flag set, as the bitflags operations compute them.
RECURSIVE BitAnd(_, _)
BitAnd(a, b) ==
    IF a = 0 \/ b = 0
    THEN 0
    ELSE (a % 2) * (b % 2) + 2 * BitAnd(a \div 2, b \div 2)

RECURSIVE Shl(_, _)
Shl(a, n) == IF n = 0 THEN a ELSE Shl(2 * a, n - 1)

\* const SHIFT = 0b100, CONTROL = 0b100 << 3, ALT = 0b100 << 6 and
\* META = 0b100 << 9
SHIFT == 4

CONTROL == Shl(SHIFT, 3)

ALT == Shl(SHIFT, 6)

META == Shl(SHIFT, 9)

FlagNames == {"SHIFT", "CONTROL", "ALT", "META"}

FlagBits(name) ==
    CASE name = "SHIFT" -> SHIFT
      [] name = "CONTROL" -> CONTROL
      [] name = "ALT" -> ALT
      [] name = "META" -> META

\* ModifiersState::insert, ::remove and ::intersects
insert(self, other) == self + other - BitAnd(self, other)

remove(self, other) == self - BitAnd(self, other)

intersects(self, other) == BitAnd(self, other) # 0

shift_key(self) == intersects(self, SHIFT)

\* ModifiersState::control_key, testing the flag of the method above it.
control_key_shift(self) == intersects(self, SHIFT)

control_key(self) == intersects(self, CONTROL)

alt_key(self) == intersects(self, ALT)

super_key(self) == intersects(self, META)

\* A ModifiersState: its bits, the names of the flags set in it, and what
\* the four queries return for it.
Mods(bits, flags) ==
    [bits |-> bits, flags |-> flags,
     shift_key |-> shift_key(bits), control_key |-> control_key(bits),
     alt_key |-> alt_key(bits), super_key |-> super_key(bits)]

\* ModifiersState::default()
NoMods == Mods(0, {})

----------------------------------------------------------------------------
(* Key data model: the operations KeySpec applies *)

\* The operands of one comparison (or of to_text), by type.
NoArgs ==
    [kind |-> "none", physical |-> NoPhysical, code |-> "-",
     native |-> NativeUnidentified, nkey |-> NativeKeyUnidentified,
     key |-> KeyDead(NoText), named |-> "-", text |-> <<>>]

\* What the operation returned: left == right, right == left, or a text.
Result(kind, eq, mirror, text) ==
    [kind |-> kind, eq |-> eq, mirror |-> mirror, text |-> text]

NoResult == Result("none", FALSE, FALSE, NoText)

NativeKeyCodeArgs ==
    {[NoArgs EXCEPT !.kind = "NativeKeyCode == NativeKey", !.native = c, !.nkey = n] :
        c \in NativeKeyCodes, n \in NativeKeys}

\* code == key and key == code for a NativeKeyCode and a NativeKey
compare_NativeKeyCode_NativeKey ==
    /\ kargs.kind = "NativeKeyCode == NativeKey"
    /\ kresult = NoResult
    /\ kresult' = Result(kargs.kind,
                         NativeKeyCode_eq_NativeKey(kargs.native, kargs.nkey),
                         NativeKey_eq_NativeKeyCode(kargs.nkey, kargs.native),
                         NoText)
    /\ UNCHANGED <<convVars, kargs, kmods, appVars>>

PhysicalKeyCodeArgs ==
    {[NoArgs EXCEPT !.kind = "PhysicalKey == KeyCode", !.physical = p, !.code = k] :
        p \in PhysicalKeys, k \in KeyCodes}

\* key == code and code == key for a PhysicalKey and a KeyCode
compare_PhysicalKey_KeyCode ==
    /\ kargs.kind = "PhysicalKey == KeyCode"
    /\ kresult = NoResult
    /\ kresult' = Result(kargs.kind,
                         PhysicalKey_eq_KeyCode(kargs.physical, kargs.code),
                         KeyCode_eq_PhysicalKey(kargs.code, kargs.physical),
                         NoText)
    /\ UNCHANGED <<convVars, kargs, kmods, appVars>>

PhysicalKeyNativeArgs ==
    {[NoArgs EXCEPT !.kind = "PhysicalKey == NativeKeyCode", !.physical = p, !.native = n] :
        p \in PhysicalKeys, n \in NativeKeyCodes}

\* key == code and code == key for a PhysicalKey and a NativeKeyCode
compare_PhysicalKey_NativeKeyCode ==
    /\ kargs.kind = "PhysicalKey == NativeKeyCode"
    /\ kresult = NoResult
    /\ kresult' = Result(kargs.kind,
                         PhysicalKey_eq_NativeKeyCode(kargs.physical, kargs.native),
                         NativeKeyCode_eq_PhysicalKey(kargs.native, kargs.physical),
                         NoText)
    /\ UNCHANGED <<convVars, kargs, kmods, appVars>>

KeyNamedArgs ==
    {[NoArgs EXCEPT !.kind = "Key == NamedKey", !.key = x, !.named = a] :
        x \in Keys, a \in NamedKeys}

\* key == named for a Key and a NamedKey; the mirrored comparison is not
\* defined, so both fields of the result hold this one.
compare_Key_NamedKey ==
    /\ kargs.kind = "Key == NamedKey"
    /\ kresult = NoResult
    /\ kresult' = Result(kargs.kind,
                         Key_eq_NamedKey(kargs.key, kargs.named),
                         Key_eq_NamedKey(kargs.key, kargs.named),
                         NoText)
    /\ UNCHANGED <<convVars, kargs, kmods, appVars>>

KeyStrArgs ==
    {[NoArgs EXCEPT !.kind = "Key == str", !.key = x, !.text = t] :
        x \in Keys, t \in Texts}

\* key == *text (str) and key == text (&str) for a Key and a string
compare_Key_str ==
    /\ kargs.kind = "Key == str"
    /\ kresult = NoResult
    /\ kresult' = Result(kargs.kind,
                         Key_eq_str(kargs.key, kargs.text),
                         Key_eq_ref_str(kargs.key, kargs.text),
                         NoText)
    /\ UNCHANGED <<convVars, kargs, kmods, appVars>>

KeyNativeArgs ==
    {[NoArgs EXCEPT !.kind = "Key == NativeKey", !.key = x, !.nkey = n] :
        x \in Keys, n \in NativeKeys}

\* key == native and native == key for a Key and a NativeKey
compare_Key_NativeKey ==
    /\ kargs.kind = "Key == NativeKey"
    /\ kresult = NoResult
    /\ kresult' = Result(kargs.kind,
                         Key_eq_NativeKey(kargs.key, kargs.nkey),
                         NativeKey_eq_Key(kargs.nkey, kargs.key),
                         NoText)
    /\ UNCHANGED <<convVars, kargs, kmods, appVars>>

KeyTextArgs == {[NoArgs EXCEPT !.kind = "Key::to_text", !.key = x] : x \in Keys}

\* key.to_text()
apply_Key_to_text ==
    /\ kargs.kind = "Key::to_text"
    /\ kresult = NoResult
    /\ kresult' = Result(kargs.kind, FALSE, FALSE, Key_to_text(kargs.key))
    /\ UNCHANGED <<convVars, kargs, kmods, appVars>>

ModifiersArgs == {[NoArgs EXCEPT !.kind = "ModifiersState"]}

\* state.insert(flag), followed by the four queries
apply_insert(name) ==
    /\ kargs.kind = "ModifiersState"
    /\ kmods' = Mods(insert(kmods.bits, FlagBits(name)), kmods.flags \cup {name})
    /\ UNCHANGED <<convVars, kargs, kresult, appVars>>

\* state.remove(flag), followed by the four queries
apply_remove(name) ==
    /\ kargs.kind = "ModifiersState"
    /\ kmods' = Mods(remove(kmods.bits, FlagBits(name)), kmods.flags \ {name})
    /\ UNCHANGED <<convVars, kargs, kresult, appVars>>

KeyArgs ==
    NativeKeyCodeArgs \cup PhysicalKeyCodeArgs \cup PhysicalKeyNativeArgs
    \cup KeyNamedArgs \cup KeyStrArgs \cup KeyNativeArgs
    \cup KeyTextArgs \cup ModifiersArgs

----------------------------------------------------------------------------
(* Specifications of the interception *)

AppInit ==
    /\ implementation = [m \in Methods |-> NativeImp(m)]
    /\ ORIGINAL = [i \in Instances |-> None]
    /\ installers = {}
    /\ queue = [i \in Instances |-> <<>>]
    /\ call = NoCall
    /\ depth = 0
    /\ dispatched = 0
    /\ panicked = None
    /\ last = [op |-> "init"]

\* No key value is in play.
KeyIdle ==
    /\ kinput = NoKey
    /\ kvalue = NoKey
    /\ kops = <<>>
    /\ kargs = NoArgs
    /\ kresult = NoResult
    /\ kmods = NoMods

Init ==
    /\ AppInit
    /\ KeyIdle

\* The copy of the library the program normally links.
Primary == "A"

Next ==
    \/ \E app \in Apps : override_send_event(Primary, app)
    \/ \E app \in Apps, event \in Events : sendEvent(app, event)
    \/ send_event(Primary)
    \/ native_sendEvent

\* The program: one copy of the library, whose send_event is reached only
\* through a swizzled method.
Spec == Init /\ [][Next]_vars

\* NSApplication::sharedApplication
SharedApp == "app"

CoexistNext ==
    \/ \E i \in Instances : override_send_event(i, SharedApp)
    \/ \E event \in Events : sendEvent(SharedApp, event)
    \/ \E i \in Instances : send_event(i)
    \/ native_sendEvent

\* Two copies of the library in one process, both installed on the shared
\* application.
CoexistSpec == Init /\ [][CoexistNext]_vars

HarnessNext ==
    \/ \E app \in Apps : override_send_event(Primary, app)
    \/ \E app \in Apps \ {"bad_app"}, event \in Events : direct_send_event(Primary, app, event)
    \/ send_event(Primary)
    \/ native_sendEvent

\* A harness that installs and calls send_event directly.
HarnessSpec == Init /\ [][HarnessNext]_vars

----------------------------------------------------------------------------
(* Specification of the key data model *)

\* One value to convert, or the operands of one comparison.
KeyInit ==
    /\ AppInit
    /\ kops = <<>>
    /\ kresult = NoResult
    /\ kmods = NoMods
    /\ \/ kinput \in KeyInputs /\ kvalue = kinput /\ kargs = NoArgs
       \/ kinput = NoKey /\ kvalue = NoKey /\ kargs \in KeyArgs

KeyNext ==
    \/ apply_PhysicalKey_from_KeyCode
    \/ apply_PhysicalKey_from_NativeKeyCode
    \/ apply_KeyCode_from_PhysicalKey
    \/ compare_NativeKeyCode_NativeKey
    \/ compare_PhysicalKey_KeyCode
    \/ compare_PhysicalKey_NativeKeyCode
    \/ compare_Key_NamedKey
    \/ compare_Key_str
    \/ compare_Key_NativeKey
    \/ apply_Key_to_text
    \/ \E name \in FlagNames : apply_insert(name)
    \/ \E name \in FlagNames : apply_remove(name)

\* Every key value, and the conversions applied to it.
KeySpec == KeyInit /\ [][KeyNext]_vars

----------------------------------------------------------------------------
(* Properties *)

\* The method table and the slots before any installation.
InitialImplementation == [m \in Methods |-> NativeImp(m)]

InitialSlots == [i \in Instances |-> None]

WrapperRan == last.op = "send_event"

CallsOf(effects) == SelectOp(effects, "call")

RoutesOf(effects) == SelectOp(effects, "keyWindow.sendEvent")

PanicsOf(effects) == SelectOp(effects, "panic")

\* C1: when every installation call so far was made by the one library
\* instance on targets of one class (one or more calls), the class's entry
\* point is the wrapper, the slot holds the entry point the class had before
\* the first call and never the wrapper, and the state is the state a single
\* call leaves.
C1_InstallIdempotent ==
    \A m \in Methods :
        installers = {<<Primary, m>>} =>
            /\ implementation[m] = overridden(Primary)
            /\ ORIGINAL[Primary] = NativeImp(m)
            /\ ORIGINAL[Primary] # overridden(Primary)
            /\ implementation = [InitialImplementation EXCEPT ![m] = overridden(Primary)]
            /\ ORIGINAL = [InitialSlots EXCEPT ![Primary] = NativeImp(m)]

\* A repeated call on an installed target has returned.
C1_Witness ==
    /\ \E m \in Methods : installers = {<<Primary, m>>}
    /\ last.op = "override_send_event"
    /\ last.result = "already"
    /\ C1_InstallIdempotent

InstanceOf(imp) == CHOOSE i \in Instances : overridden(i) = imp

\* Following wrapper -> stored handler from fn reaches a native
\* implementation within `fuel` wrappers.
RECURSIVE ReachesNative(_, _)
ReachesNative(fn, fuel) ==
    IF fn = None THEN FALSE
    ELSE IF IsNative(fn) THEN TRUE
    ELSE IF fuel = 0 THEN FALSE
    ELSE ReachesNative(ORIGINAL[InstanceOf(fn)], fuel - 1)

\* C2: with two library instances installed on the same target in any order
\* and any number of times, the chain wrapper -> stored handler -> ... from
\* the target's entry point has no cycle: it reaches the native handler, and
\* no dispatch recurses until the stack overflows.
C2_NoCycle ==
    /\ \A m \in Methods : ReachesNative(implementation[m], Cardinality(Instances))
    /\ panicked # MsgStackOverflow

\* C3 as stated: a key-release with the command flag is routed to the key
\* window's sendEvent: and nothing else happens.
C3_RoutedToKeyWindow ==
    (WrapperRan /\ IsCommandKeyUp(last.event)) =>
        /\ RoutesOf(last.effects) = <<RouteEffect(last.event)>>
        /\ CallsOf(last.effects) = <<>>
        /\ QueuedBy(last.effects) = <<>>

\* C3, amended: a key-release with the command flag is routed to the key
\* window's sendEvent: when the application has a key window and delivered
\* nowhere when it has none; either way the wrapper then stops: no original
\* handler is invoked, no device event is queued, nothing panics.
C3_RoutedIfKeyWindow ==
    (WrapperRan /\ IsCommandKeyUp(last.event)) =>
        /\ RoutesOf(last.effects) =
               (IF last.keyWindow THEN <<RouteEffect(last.event)>> ELSE <<>>)
        /\ CallsOf(last.effects) = <<>>
        /\ QueuedBy(last.effects) = <<>>
        /\ PanicsOf(last.effects) = <<>>
        /\ call = NoCall
        /\ panicked = None

\* A command key-release went to the key window of an installed target.
C3_Witness ==
    /\ WrapperRan
    /\ IsCommandKeyUp(last.event)
    /\ last.keyWindow
    /\ last.slot # None
    /\ RoutesOf(last.effects) = <<RouteEffect(last.event)>>
    /\ call = NoCall

\* C4: for an event that is not a command key-release, with a handler
\* stored, the wrapper calls the stored handler exactly once, with the
\* target, selector and event it was given, as its last step: after every
\* device event of that event was queued.
C4_ForwardsUnmodified ==
    (WrapperRan /\ ~IsCommandKeyUp(last.event) /\ last.slot # None) =>
        /\ CallsOf(last.effects) = <<CallEffect(last.slot, last.app, last.sel, last.event)>>
        /\ last.effects[Len(last.effects)].op = "call"
        /\ \A k \in 1..(Len(last.effects) - 1) : last.effects[k].op = "queue"
        /\ call = Call(last.slot, last.app, last.sel, last.event)

\* A device event was queued and the event then forwarded.
C4_Witness ==
    /\ WrapperRan
    /\ ~IsCommandKeyUp(last.event)
    /\ last.slot # None
    /\ Len(QueuedBy(last.effects)) = 1
    /\ last.effects[2].op = "call"
    /\ call.event = last.event

\* C5: a pointer-motion event (mouse moved, left/right/other dragged) with
\* deltas (dx, dy) queues exactly one PointerMotion with delta (dx, dy) when
\* dx or dy is not zero and queues nothing when both are zero; in both cases
\* the stored handler is called.
C5_PointerMotion ==
    (WrapperRan /\ last.event.type \in MotionTypes) =>
        /\ QueuedBy(last.effects) =
               (IF last.event.deltaX # 0 \/ last.event.deltaY # 0
                THEN <<PointerMotion(last.event.deltaX, last.event.deltaY)>>
                ELSE <<>>)
        /\ QueuedBy(last.effects) # <<>> =>
               /\ queue[last.inst] # <<>>
               /\ queue[last.inst][Len(queue[last.inst])] = QueuedBy(last.effects)[1]
        /\ Len(CallsOf(last.effects)) = 1
        /\ call.fn = last.slot
        /\ call.event = last.event

\* A motion event with only one non-zero delta was queued and forwarded.
C5_Witness ==
    /\ WrapperRan
    /\ last.event.type = "LeftMouseDragged"
    /\ last.event.deltaX = 0
    /\ last.event.deltaY # 0
    /\ Len(QueuedBy(last.effects)) = 1
    /\ IsNative(call.fn)

\* The isize b is a value of the u32 button field.
InU32Range(b) == b[1] = 0 /\ b[2] = 0

ButtonQueued(effects, b, state) ==
    /\ Len(QueuedBy(effects)) = 1
    /\ QueuedBy(effects)[1].kind = "Button"
    /\ QueuedBy(effects)[1].state = state
    /\ InU32Range(b) => U32AsISize(QueuedBy(effects)[1].button) = b

\* C6: a left/right/other mouse-down event with button index b queues
\* exactly one Button event with button b and state Pressed, a mouse-up
\* event exactly one with button b and state Released (b a value of the
\* 32-bit button field); the queued event is the last one on the queue.
C6_Buttons ==
    WrapperRan =>
        /\ last.event.type \in DownTypes =>
               ButtonQueued(last.effects, last.event.buttonNumber, "Pressed")
        /\ last.event.type \in UpTypes =>
               ButtonQueued(last.effects, last.event.buttonNumber, "Released")
        /\ last.event.type \in DownTypes \cup UpTypes =>
               /\ queue[last.inst] # <<>>
               /\ queue[last.inst][Len(queue[last.inst])] = QueuedBy(last.effects)[1]

\* A mouse-up event with button index 2 was queued as Released.
C6_Witness ==
    /\ WrapperRan
    /\ last.event.type = "OtherMouseUp"
    /\ last.event.buttonNumber = <<0, 0, 0, 2>>
    /\ QueuedBy(last.effects) = <<Button(<<0, 2>>, "Released")>>

\* C7: the wrapper invoked with an empty slot and an event that is not a
\* command key-release ends in the panic "no existing sendEvent: handler
\* set": nothing is forwarded and the invocation does not return.
C7_PanicsWhenUninstalled ==
    (WrapperRan /\ last.slot = None /\ ~IsCommandKeyUp(last.event)) =>
        /\ panicked = MsgNoHandler
        /\ PanicsOf(last.effects) # <<>>
        /\ last.effects[Len(last.effects)].op = "panic"
        /\ CallsOf(last.effects) = <<>>
        /\ call = NoCall

\* The wrapper ran before any installation.
C7_Witness ==
    /\ WrapperRan
    /\ last.slot = None
    /\ installers = {}
    /\ last.event.type = "KeyDown"
    /\ panicked = MsgNoHandler

\* C8: override_send_event on a target whose class has no sendEvent: method
\* panics, and the step changes neither the method table nor the slots.
C8_PanicsBeforeChange ==
    [][(/\ last'.op = "override_send_event"
        /\ instance_method(class(last'.app)) = NoMethod)
       => (/\ last'.result = "panic"
           /\ panicked' = MsgNoMethod
           /\ implementation' = implementation
           /\ ORIGINAL' = ORIGINAL
           /\ installers' = installers)]_vars

\* The installation panicked on an installed process.
C8_Witness ==
    /\ panicked = MsgNoMethod
    /\ last.op = "override_send_event"
    /\ last.app = "bad_app"
    /\ ORIGINAL[Primary] # None

RecognizedTypes == MotionTypes \cup DownTypes \cup UpTypes

\* C9: an event whose type is not a motion, mouse-down or mouse-up type, and
\* that is not a command key-release, queues no device event, raises no
\* panic and is forwarded to the stored handler.
C9_UnrecognizedForwarded ==
    (WrapperRan /\ last.event.type \notin RecognizedTypes /\ ~IsCommandKeyUp(last.event)) =>
        /\ QueuedBy(last.effects) = <<>>
        /\ PanicsOf(last.effects) = <<>>
        /\ panicked = None
        /\ CallsOf(last.effects) = <<CallEffect(last.slot, last.app, last.sel, last.event)>>
        /\ call = Call(last.slot, last.app, last.sel, last.event)

\* A scroll-wheel event was forwarded.
C9_Witness ==
    /\ WrapperRan
    /\ last.event.type = "ScrollWheel"
    /\ QueuedBy(last.effects) = <<>>
    /\ IsNative(call.fn)

\* C10: for every KeyCode code, Unidentified included,
\* KeyCode::from(PhysicalKey::from(code)) == code.
C10_KeyCodeRoundTrip ==
    (kinput.ty = "KeyCode" /\ kops = <<"PhysicalKey::from", "KeyCode::from">>) =>
        kvalue = kinput

\* The round trip was taken from KeyCode::Unidentified.
C10_Witness ==
    /\ kinput = OfKeyCode("Unidentified")
    /\ kops = <<"PhysicalKey::from", "KeyCode::from">>
    /\ kvalue = kinput

\* C11: for every NativeKeyCode native (every platform tag and payload, and
\* Unidentified), KeyCode::from(PhysicalKey::from(native)) is
\* KeyCode::Unidentified: the conversion is defined for every input.
C11_NativeToUnidentified ==
    (kinput.ty = "NativeKeyCode" /\ kops = <<"PhysicalKey::from", "KeyCode::from">>) =>
        /\ kvalue.ty = "KeyCode"
        /\ kvalue.code = "Unidentified"
        /\ kvalue = OfKeyCode("Unidentified")

\* A platform-tagged native code was taken through both conversions.
C11_Witness ==
    /\ kinput = OfNativeKeyCode(NativeCode("Windows", 30))
    /\ kops = <<"PhysicalKey::from", "KeyCode::from">>
    /\ kvalue = OfKeyCode("Unidentified")

\* C12: for every NativeKeyCode c and NativeKey n, c == n and n == c return
\* the same boolean, true exactly when NativeKey::from(c) is n, that is when
\* n carries c's platform tag and integer; so NativeKey::from(c) == c, codes
\* of different platforms with one integer differ, and no code equals a
\* NativeKey::Web value.
C12_NativeKeyEquality ==
    kresult.kind = "NativeKeyCode == NativeKey" =>
        LET c == kargs.native
            n == kargs.nkey
        IN  /\ kresult.eq = kresult.mirror
            /\ kresult.eq = (NativeKey_from_NativeKeyCode(c) = n)
            /\ kresult.eq = (n.platform = c.platform /\ n.raw = c.raw /\ n.platform # "Web")

\* A Windows code was compared with the MacOS key of the same integer, and
\* they differ.
C12_Witness ==
    /\ kresult.kind = "NativeKeyCode == NativeKey"
    /\ kargs.native = NativeCode("Windows", 30)
    /\ kargs.nkey = NativeKeyOf("MacOS", 30, "")
    /\ ~kresult.eq

\* C13: cross-type equality matches variant and payload, never a coerced
\* value, and is symmetric: a PhysicalKey equals a KeyCode k iff it is
\* Code(k), and a NativeKeyCode n iff it is Unidentified(n); a Key equals a
\* NamedKey a iff it is Named(a), a NativeKey n iff it is Unidentified(n),
\* and a string s iff it is Character(s). So Unidentified(n) never equals
\* KeyCode::Unidentified, and each mirrored comparison returns the same
\* boolean.
C13_VariantAndPayload ==
    LET p == kargs.physical
        x == kargs.key
    IN  /\ kresult.kind = "PhysicalKey == KeyCode" =>
            /\ kresult.eq = (p.variant = "Code" /\ p.code = kargs.code)
            /\ kresult.mirror = kresult.eq
            /\ p.variant = "Unidentified" => ~kresult.eq
        /\ kresult.kind = "PhysicalKey == NativeKeyCode" =>
            /\ kresult.eq = (p.variant = "Unidentified" /\ p.native = kargs.native)
            /\ kresult.mirror = kresult.eq
        /\ kresult.kind = "Key == NamedKey" =>
            kresult.eq = (x.variant = "Named" /\ x.named = kargs.named)
        /\ kresult.kind = "Key == NativeKey" =>
            /\ kresult.eq = (x.variant = "Unidentified" /\ x.native = kargs.nkey)
            /\ kresult.mirror = kresult.eq
        /\ kresult.kind = "Key == str" =>
            /\ kresult.eq = (x.variant = "Character" /\ x.text = kargs.text)
            /\ kresult.mirror = kresult.eq

\* An unidentified physical key was compared with KeyCode::Unidentified, the
\* code KeyCode::from maps it to, and they differ.
C13_Witness ==
    /\ kresult.kind = "PhysicalKey == KeyCode"
    /\ kargs.physical = PhysicalUnidentified(NativeCode("Xkb", 30))
    /\ kargs.code = "Unidentified"
    /\ KeyCode_from_PhysicalKey(kargs.physical) = kargs.code
    /\ ~kresult.eq
    /\ ~kresult.mirror

\* C14: Key::to_text is defined for every key and is a fixed lookup:
\* Named(Enter) gives CR, Named(Backspace) BS, Named(Tab) TAB, Named(Escape)
\* ESC, Character(s) gives s; every other Named key, every Unidentified key
\* and every Dead key, Dead(Some(c)) included, gives no text.
C14_ToText ==
    kresult.kind = "Key::to_text" =>
        LET x == kargs.key
            t == kresult.text
        IN  /\ (x.variant = "Named" /\ x.named = "Enter") => t = SomeText(<<13>>)
            /\ (x.variant = "Named" /\ x.named = "Backspace") => t = SomeText(<<8>>)
            /\ (x.variant = "Named" /\ x.named = "Tab") => t = SomeText(<<9>>)
            /\ (x.variant = "Named" /\ x.named = "Escape") => t = SomeText(<<27>>)
            /\ (x.variant = "Named"
                    /\ x.named \notin {"Enter", "Backspace", "Tab", "Escape"}) => ~t.some
            /\ x.variant = "Character" => t = SomeText(x.text)
            /\ x.variant \in {"Unidentified", "Dead"} => ~t.some
            /\ t \in {NoText} \cup {SomeText(s) : s \in Texts \cup {<<8>>, <<9>>}}

\* to_text was applied to a dead key that carries a character, and gave no
\* text.
C14_Witness ==
    /\ kresult.kind = "Key::to_text"
    /\ kargs.key = KeyDead(SomeText(<<180>>))
    /\ kresult.text = NoText

\* C15: for every ModifiersState reached from the default by setting and
\* clearing SHIFT, CONTROL, ALT and META, each of shift_key, control_key,
\* alt_key and super_key is true iff its own flag is set, whatever the other
\* three are; for the default all four are false.
C15_ModifierQueries ==
    /\ kmods.shift_key = ("SHIFT" \in kmods.flags)
    /\ kmods.control_key = ("CONTROL" \in kmods.flags)
    /\ kmods.alt_key = ("ALT" \in kmods.flags)
    /\ kmods.super_key = ("META" \in kmods.flags)
    /\ (kmods.flags = {} /\ kmods.bits = 0) =>
            ~(kmods.shift_key \/ kmods.control_key \/ kmods.alt_key \/ kmods.super_key)

\* CONTROL, ALT and META are set and SHIFT is not: only shift_key is false.
C15_Witness ==
    /\ kargs.kind = "ModifiersState"
    /\ kmods.flags = {"CONTROL", "ALT", "META"}
    /\ kmods.bits = CONTROL + ALT + META
    /\ ~kmods.shift_key
    /\ kmods.control_key /\ kmods.alt_key /\ kmods.super_key

\* C16: the original-handler slot is write-once: over any sequence of
\* installation calls, also on targets whose classes have distinct entry
\* points, the slot is written once and its value never changes afterwards.
C16_SlotWriteOnce ==
    [][ORIGINAL[Primary] # None => ORIGINAL'[Primary] = ORIGINAL[Primary]]_vars

\* The classes of the two targets with a sendEvent: method of their own.
InstalledOnBoth ==
    {<<Primary, instance_method(class(app))>> : app \in {"app", "test_app"}} \subseteq installers

\* C17: after override_send_event has been called on two targets whose
\* classes had distinct entry points, an event dispatched on either target is
\* forwarded to the entry point that target's class had before.
C17_ForwardedToOwnOriginal ==
    (InstalledOnBoth /\ last.op = "native") =>
        last.fn = NativeImp(instance_method(class(last.app)))

\* C18: installation and dispatch being serialized, in every state between
\* operations a target whose entry point is the wrapper has a non-empty
\* original-handler slot, and no event dispatched through an installed
\* target ends in the "no existing sendEvent: handler set" panic.
C18_SlotSetWhenInstalled ==
    /\ \A m \in Methods :
            implementation[m] = overridden(Primary) => ORIGINAL[Primary] # None
    /\ panicked # MsgNoHandler
    /\ WrapperRan => last.slot # None

\* An event dispatched on an installed target ran the wrapper, which found
\* the slot filled and forwarded to it.
C18_Witness ==
    /\ WrapperRan
    /\ last.slot = NativeImp(instance_method(class(last.app)))
    /\ implementation[instance_method(class(last.app))] = overridden(Primary)
    /\ CallsOf(last.effects) # <<>>

\* The invocation delivered its event: to the key window, to the stored
\* handler, or it panicked.
Delivered(effects) ==
    \/ RoutesOf(effects) # <<>>
    \/ CallsOf(effects) # <<>>
    \/ PanicsOf(effects) # <<>>

\* C19 as stated: no event handed to the wrapper is dropped: every
\* invocation ends with the event routed to the key window, or forwarded to
\* the stored handler, or with a panic, a command key-release with no key
\* window included.
C19_NeverDropped ==
    WrapperRan => Delivered(last.effects)

\* C19, amended: an invocation of the wrapper ends with the event routed to
\* the key window, forwarded to the stored handler, or with a panic, unless
\* the event is a command key-release and the application has no key window:
\* that event, and only that one, is delivered nowhere and the wrapper
\* returns.
C19_DroppedOnlyWithoutKeyWindow ==
    WrapperRan =>
        /\ Delivered(last.effects) <=> ~(IsCommandKeyUp(last.event) /\ ~last.keyWindow)
        /\ ~Delivered(last.effects) =>
                /\ last.effects = <<>>
                /\ call = NoCall
                /\ panicked = None

\* A command key-release reached the wrapper while the application had no
\* key window, and the wrapper returned without delivering it.
C19_Witness ==
    /\ WrapperRan
    /\ IsCommandKeyUp(last.event)
    /\ ~last.keyWindow
    /\ last.effects = <<>>
    /\ call = NoCall
    /\ panicked = None

\* The current value is a PhysicalKey that PhysicalKey::from returned.
Converted ==
    /\ kops # <<>>
    /\ kops[Len(kops)] = "PhysicalKey::from"
    /\ kvalue.ty = "PhysicalKey"

\* C20 as stated: no PhysicalKey returned by PhysicalKey::from, from a
\* KeyCode or from a NativeKeyCode, is Code(KeyCode::Unidentified).
C20_NeverCodeUnidentified ==
    Converted => kvalue.physical # PhysicalCode("Unidentified")

\* C20, amended: PhysicalKey::from of a NativeKeyCode n is Unidentified(n),
\* never a Code; PhysicalKey::from of a KeyCode k is Code(k), which is
\* Code(KeyCode::Unidentified) exactly when k is KeyCode::Unidentified.
C20_CodeUnidentifiedOnlyFromItself ==
    [][(kops' # kops /\ kvalue'.ty = "PhysicalKey") =>
            /\ kvalue.ty = "NativeKeyCode" =>
                    kvalue'.physical = PhysicalUnidentified(kvalue.native)
            /\ kvalue.ty = "KeyCode" =>
                    kvalue'.physical = PhysicalCode(kvalue.code)
            /\ (kvalue'.physical = PhysicalCode("Unidentified")) <=>
                    (kvalue.ty = "KeyCode" /\ kvalue.code = "Unidentified")]_vars

\* The unidentified native code was converted, and the result is
\* Unidentified(NativeKeyCode::Unidentified), not a Code.
C20_Witness ==
    /\ kinput = OfNativeKeyCode(NativeUnidentified)
    /\ kops = <<"PhysicalKey::from">>
    /\ kvalue = OfPhysicalKey(PhysicalUnidentified(NativeUnidentified))

\* C21: the button of a queued Button device event is the native event's
\* button number for every value the signed pointer-width button number can
\* take: the conversion to the 32-bit unsigned field changes no value,
\* neither a negative number nor a number from 2^32 on.
C21_ButtonNumberUnchanged ==
    (WrapperRan /\ last.event.type \in DownTypes \cup UpTypes) =>
        /\ Len(QueuedBy(last.effects)) = 1
        /\ U32AsISize(QueuedBy(last.effects)[1].button) = last.event.buttonNumber

\* The class's entry point is the wrapper and the slot is filled.
Installed(impl, slots, m) == impl[m] = overridden(Primary) /\ slots[Primary] # None

\* C22: Installed is terminal: once an installation call has succeeded,
\* after every later installation call and wrapper invocation the target's
\* entry point is still the wrapper and the slot still non-empty; a wrapper
\* invocation changes neither the entry points nor the slot.
C22_InstalledIsTerminal ==
    [][/\ \A m \in Methods :
            Installed(implementation, ORIGINAL, m) => Installed(implementation', ORIGINAL', m)
       /\ (call.fn = overridden(Primary) /\ last'.op \in {"send_event", "overflow"}) =>
            (implementation' = implementation /\ ORIGINAL' = ORIGINAL)]_vars

\* Both classes were installed and the last of the dispatched events just
\* ran the wrapper: both are still installed.
C22_Witness ==
    /\ WrapperRan
    /\ {<<Primary, m>> : m \in Methods} \subseteq installers
    /\ \A m \in Methods : Installed(implementation, ORIGINAL, m)
    /\ dispatched = MaxDispatch

\* C23: a wrapper invocation queues at most one device event, every queued
\* device event is a PointerMotion or a Button, and an installation call
\* queues none.
C23_AtMostOneDeviceEvent ==
    [][/\ (call.fn = overridden(Primary) /\ last'.op = "send_event") =>
            /\ Len(QueuedBy(last'.effects)) <= 1
            /\ queue'[Primary] = queue[Primary] \o QueuedBy(last'.effects)
            /\ Len(queue'[Primary]) <= Len(queue[Primary]) + 1
       /\ (Idle /\ last'.op = "override_send_event") => queue' = queue
       /\ \A k \in 1..Len(queue'[Primary]) :
            queue'[Primary][k].kind \in {"PointerMotion", "Button"}]_vars

\* One motion with both deltas non-zero and one button press each queued
\* exactly one device event.
C23_Witness ==
    /\ WrapperRan
    /\ Len(queue[Primary]) = 2
    /\ queue[Primary][1] = PointerMotion(3, -1)
    /\ queue[Primary][2].kind = "Button"
    /\ Len(QueuedBy(last.effects)) = 1

====
